---- MODULE Spec2Model ----
(***************************************************************************)
(* create-dylan-app: the interactive scaffolding run of src/bin/index.js.  *)
(* One run asks three questions, creates the project directory, copies     *)
(* the template trees, patches package.json and shells out to npm.         *)
(***************************************************************************)
EXTENDS Naturals, Sequences, FiniteSets, TLC

(* ------------------------------ bounds --------------------------------- *)

\* How often the name prompt may reject an answer before the model stops asking.
MaxRejections == 2

\* Longest member list of a package.json object text the model enumerates.
MaxMembers == 2

(* --------------------------- static tables ----------------------------- *)

\* resolve(__dirname, '../content/common')
commonPath == "content/common"

baseConfigs ==
  [javascript |->
     [contentPath |-> "content/javascript",
      dependencies |->
        [save |-> <<"react@18", "react-dom@18">>,
         saveDev |-> <<"vite@4", "@vitejs/plugin-react@4">>]],
   typescript |->
     [contentPath |-> "content/typescript",
      dependencies |->
        [save |-> <<"react@18", "react-dom@18">>,
         saveDev |-> <<"vite@4", "@vitejs/plugin-react@4", "@types/react@18",
                       "@types/react-dom@18", "@types/node@18">>]]]

styleConfigs ==
  [mui |->
     [dependencies |->
        [saveDev |-> <<"@mui/material@5", "@emotion/react@11", "@emotion/styled@11">>]],
   tailwindcss |->
     [contentPath |-> "content/tailwindcss",
      dependencies |->
        [saveDev |-> <<"tailwindcss@3", "postcss@8", "autoprefixer@10">>]],
   bootstrap |->
     [dependencies |-> [saveDev |-> <<"bootstrap@5">>]]]

\* choices of the third question
choices == {"None", "MUI", "Tailwind CSS", "Bootstrap"}

(* ---------------------------- JS values -------------------------------- *)

\* A JavaScript value with its type, so that === can compare across types.
JSBoolean(b) == [t |-> "boolean", v |-> IF b THEN "true" ELSE "false"]
JSString(s) == [t |-> "string", v |-> s]

\* a === b : same type and same value, no coercion.
StrictEquals(a, b) == a.t = b.t /\ a.v = b.v

\* What a 'confirm' question puts into the answers hash for the user's y/n.
\* The question's transformer only changes what is displayed.
ConfirmAnswer(yes) == JSBoolean(yes)

ThumbsUp == JSString("thumbs-up")

(* ------------------------- the working directory ----------------------- *)

\* Names the user may type at the first prompt.
Names == {"", " ", "app"}

\* Directory entries of cwd that a typed name can refer to.
EntryNames == Names \ {""}

\* What resolve(cwd, value) refers to on disk.
EntryKinds == {"absent", "emptydir", "nonemptydir", "file"}

\* resolve(base, name): paths are sequences of segments, cwd is <<>>.
resolve(base, name) == Append(base, name)

cwd == <<>>

(* --------------------------- name validation --------------------------- *)

existsSync(entries, name) == entries[name] # "absent"

\* readdirSync(path): "entries" when the directory has some, "none" when it has
\* none, "ENOTDIR" when the path is not a directory.
readdirSync(entries, name) ==
  CASE entries[name] = "emptydir" -> "none"
    [] entries[name] = "nonemptydir" -> "entries"
    [] OTHER -> "ENOTDIR"

isDirectoryEmpty(entries, name) == readdirSync(entries, name) = "none"

\* Results of the validate hook: acceptance, one of the two messages, or the
\* exception readdirSync raises out of it.
Valid == "true"
PleaseEnterAName == "Please enter a name"
CannotUseName == "Cannot use name; this directory already exists and is not empty"
ValidateThrows == "ENOTDIR"

validate_rejectsExisting(value, entries) ==
  IF value = "" THEN PleaseEnterAName
  ELSE IF existsSync(entries, value) THEN CannotUseName
  ELSE Valid

validate_acceptsAll(value, entries) ==
  IF value = "" THEN Valid
  ELSE IF existsSync(entries, value)
    THEN IF readdirSync(entries, value) = "ENOTDIR" THEN ValidateThrows ELSE Valid
    ELSE Valid

validate(value, entries) ==
  IF value = "" THEN PleaseEnterAName
  ELSE IF existsSync(entries, value)
    THEN IF readdirSync(entries, value) = "ENOTDIR" THEN ValidateThrows
         ELSE IF ~isDirectoryEmpty(entries, value) THEN CannotUseName
         ELSE Valid
    ELSE Valid

(* ------------------------------- JSON ---------------------------------- *)

\* The members a package.json text is built from, as <<name, value>>.  "1" is
\* an integer-like name: the engine enumerates it before the other names.
Members ==
  {<<"name", "template">>, <<"version", "1.0.0">>, <<"version", "2.0.0">>, <<"1", "x">>}

IsArrayIndex(k) == k = "1"

RECURSIVE SeqsUpTo(_, _)
SeqsUpTo(S, n) ==
  IF n = 0 THEN {<<>>}
  ELSE LET shorter == SeqsUpTo(S, n - 1)
       IN shorter \cup {Append(q, x) : q \in {r \in shorter : Len(r) = n - 1}, x \in S}

\* The contents of a package.json file: absent, not JSON, one of the JSON
\* texts that are no object, or an object text with its members as written
\* (a name may be written twice).
NoFile == [kind |-> "missing", members |-> <<>>]

FileContents ==
  {[kind |-> k, members |-> <<>>] : k \in {"missing", "invalid", "null", "primitive", "array"}}
    \cup {[kind |-> "object", members |-> m] : m \in SeqsUpTo(Members, MaxMembers)}

HasKey(obj, k) == \E i \in 1..Len(obj) : obj[i][1] = k

\* obj[k] = v on an ordinary object: an existing property keeps its place, a
\* new integer-like property goes before the string-named ones, any other new
\* property goes last.
SetProperty_dropsOthers(obj, k, v) == <<(<<k, v>>)>>

SetProperty(obj, k, v) ==
  IF HasKey(obj, k)
    THEN [i \in 1..Len(obj) |-> IF obj[i][1] = k THEN <<k, v>> ELSE obj[i]]
    ELSE IF IsArrayIndex(k) THEN <<(<<k, v>>)>> \o obj
    ELSE Append(obj, <<k, v>>)

\* JSON.parse of an object text: the members are defined left to right.
RECURSIVE ParseMembers(_, _)
ParseMembers(members, obj) ==
  IF members = <<>> THEN obj
  ELSE ParseMembers(Tail(members), SetProperty(obj, Head(members)[1], Head(members)[2]))

\* readFileSync + JSON.parse: the parsed value, or the exception.
JSONparse(file) ==
  CASE file.kind = "missing" -> [t |-> "throw", v |-> "ENOENT", props |-> <<>>]
    [] file.kind = "invalid" -> [t |-> "throw", v |-> "SyntaxError", props |-> <<>>]
    [] file.kind = "object" -> [t |-> "object", v |-> "", props |-> ParseMembers(file.members, <<>>)]
    [] OTHER -> [t |-> file.kind, v |-> "", props |-> <<>>]

\* JSON.stringify(value, undefined, 2): an object's own properties in
\* enumeration order; an array's elements only, never its named properties.
JSONstringify(value) ==
  IF value.t = "object" THEN [kind |-> "object", members |-> value.props]
  ELSE [kind |-> value.t, members |-> <<>>]

\* packageJSON.name = name, in strict mode (an ES module): a TypeError on null
\* and on a primitive, a named property on an array or an object.
AssignName(value, name) ==
  CASE value.t \in {"null", "primitive"} -> [t |-> "throw", v |-> "TypeError", props |-> <<>>]
    [] value.t = "object" -> [value EXCEPT !.props = SetProperty(value.props, "name", name)]
    [] OTHER -> value

(* ------------------------------ templates ------------------------------ *)

\* File paths of a project root the model follows.
Paths == {"package.json", "vite.config.js"}

\* The files of a template tree.  content/tailwindcss holds a vite.config.js;
\* content/common holds the package.json unless the template is damaged;
\* whether a language template brings its own vite.config.js is an input.
TemplateFiles(contentPath, commonFile, langHasViteConfig) ==
  CASE contentPath = commonPath ->
         IF commonFile.kind = "missing" THEN {} ELSE {"package.json"}
    [] contentPath = styleConfigs.tailwindcss.contentPath -> {"vite.config.js"}
    [] OTHER -> IF langHasViteConfig THEN {"vite.config.js"} ELSE {}

(* ------------------------------- state --------------------------------- *)

VARIABLES
  pc,                \* where the run is
  answers,           \* the answers hash of inquirer.prompt
  rejections,        \* rejected answers to the question being asked
  entries,           \* cwd: what each name refers to on disk
  files,             \* project root: the template each file came from, or "-"
  manifest,          \* project root: the contents of package.json
  procCwd,           \* process.cwd()
  copies,            \* content paths copied so far, in order
  installs,          \* npm invocations so far, in order
  trace,             \* the steps taken so far, in order
  output,            \* what was printed
  exitCode,          \* the process's exit status, "running" until it ends
  commonFile,        \* input: package.json as content/common holds it
  langHasViteConfig  \* input: the language templates hold a vite.config.js

vars == <<pc, answers, rejections, entries, files, manifest, procCwd, copies,
          installs, trace, output, exitCode, commonFile, langHasViteConfig>>

inputs == <<commonFile, langHasViteConfig>>

\* The project directory of the run.
projectRoot == resolve(cwd, answers.name)

\* execSync outcomes: exit status and what the child wrote to stderr.
ExecResults == {[status |-> 0, stderr |-> ""], [status |-> 1, stderr |-> "ENOTFOUND registry"]}

Init ==
  /\ pc = "promptName"
  /\ answers = [name |-> "", useTypeScript |-> JSBoolean(FALSE), styleLibrary |-> "None"]
  /\ rejections = 0
  /\ entries \in [EntryNames -> EntryKinds]
  /\ files = [p \in Paths |-> "-"]
  /\ manifest = NoFile
  /\ procCwd = cwd
  /\ copies = <<>>
  /\ installs = <<>>
  /\ trace = <<>>
  /\ output = <<>>
  /\ exitCode = "running"
  /\ commonFile \in FileContents
  /\ langHasViteConfig \in BOOLEAN

\* An exception nobody catches: main()'s promise rejects, the runtime prints
\* the error and ends the process with status 1.
Uncaught(error) ==
  /\ pc' = "exited"
  /\ exitCode' = "1"
  /\ output' = Append(output, [text |-> "Uncaught", detail |-> error])

(* ------------------------------ prompts -------------------------------- *)

\* Question 1, an answer the validate hook accepts.
NameAccepted(value) ==
  /\ pc = "promptName"
  /\ validate(value, entries) = Valid
  /\ answers' = [answers EXCEPT !.name = value]
  /\ rejections' = 0
  /\ pc' = "promptTS"
  /\ UNCHANGED <<entries, files, manifest, procCwd, copies, installs, trace,
                 output, exitCode, inputs>>

\* Question 1, an answer the validate hook answers with a message: the
\* message is shown and the question stays open.
NameRejected(value) ==
  /\ pc = "promptName"
  /\ validate(value, entries) \in {PleaseEnterAName, CannotUseName}
  /\ rejections < MaxRejections
  /\ rejections' = rejections + 1
  /\ output' = Append(output, [text |-> "validate", detail |-> validate(value, entries)])
  /\ UNCHANGED <<pc, answers, entries, files, manifest, procCwd, copies, installs,
                 trace, exitCode, inputs>>

\* Question 1, the validate hook raises (readdirSync on a path that is a file).
NameValidateThrows(value) ==
  /\ pc = "promptName"
  /\ validate(value, entries) = ValidateThrows
  /\ Uncaught(ValidateThrows)
  /\ UNCHANGED <<answers, rejections, entries, files, manifest, procCwd, copies,
                 installs, trace, inputs>>

\* Question 2.
AnswerTypeScript(yes) ==
  /\ pc = "promptTS"
  /\ answers' = [answers EXCEPT !.useTypeScript = ConfirmAnswer(yes)]
  /\ pc' = "promptStyle"
  /\ UNCHANGED <<rejections, entries, files, manifest, procCwd, copies, installs,
                 trace, output, exitCode, inputs>>

\* Question 3; inquirer.prompt resolves with the answers.
AnswerStyle(choice) ==
  /\ pc = "promptStyle"
  /\ answers' = [answers EXCEPT !.styleLibrary = choice]
  /\ trace' = Append(trace, "answers")
  /\ pc' = "setup"
  /\ UNCHANGED <<rejections, entries, files, manifest, procCwd, copies, installs,
                 output, exitCode, inputs>>

(* ------------------------------- main ---------------------------------- *)

\* const isTypeScript = answers.useTypeScript === '👍'
isTypeScript == StrictEquals(answers.useTypeScript, ThumbsUp)

\* const config = isTypeScript ? baseConfigs.typescript : baseConfigs.javascript
config == IF isTypeScript THEN baseConfigs.typescript ELSE baseConfigs.javascript

\* The switch over answers.styleLibrary: the key of the style configuration,
\* "null" when no case matches.
styleConfig_defaultsToMui(styleLibrary) ==
  CASE styleLibrary = "Tailwind CSS" -> "tailwindcss"
    [] styleLibrary = "Bootstrap" -> "bootstrap"
    [] OTHER -> "mui"

styleConfig(styleLibrary) ==
  CASE styleLibrary = "MUI" -> "mui"
    [] styleLibrary = "Tailwind CSS" -> "tailwindcss"
    [] styleLibrary = "Bootstrap" -> "bootstrap"
    [] OTHER -> "null"

\* extra.copy(src, projectPaths.root) has completed: the files of src are in
\* the project root, over whatever was at the same path.
copy(src) ==
  LET brought == TemplateFiles(src, commonFile, langHasViteConfig)
      after == [p \in Paths |-> IF p \in brought THEN src ELSE files[p]]
  IN /\ files' = after
     /\ manifest' = IF "package.json" \in brought THEN commonFile ELSE manifest
     /\ entries' = [entries EXCEPT ![answers.name] =
                      IF \E p \in Paths : after[p] # "-" THEN "nonemptydir" ELSE @]
     /\ copies' = Append(copies, src)
     /\ trace' = Append(trace, "copy")

\* console.log('Setting up project'), then mkdirSync unless the root exists.
Setup ==
  /\ pc = "setup"
  /\ output' = Append(output, [text |-> "Setting up project...", detail |-> ""])
  /\ entries' = [entries EXCEPT ![answers.name] = IF @ = "absent" THEN "emptydir" ELSE @]
  /\ pc' = "copyCommon"
  /\ UNCHANGED <<answers, rejections, files, manifest, procCwd, copies, installs,
                 trace, exitCode, inputs>>

CopyCommon_skipsPatch ==
  /\ pc = "copyCommon"
  /\ copy(commonPath)
  /\ pc' = "copyMain"
  /\ UNCHANGED <<answers, rejections, procCwd, installs, output, exitCode, inputs>>

\* await extra.copy(resolve(__dirname, '../content/common'), projectPaths.root)
CopyCommon ==
  /\ pc = "copyCommon"
  /\ copy(commonPath)
  /\ pc' = "patch"
  /\ UNCHANGED <<answers, rejections, procCwd, installs, output, exitCode, inputs>>

PatchManifest_writesAnyway ==
  LET parsed == JSONparse(manifest)
      assigned == IF parsed.t = "throw"
                    THEN [t |-> "object", v |-> "", props |-> <<(<<"name", answers.name>>)>>]
                    ELSE AssignName(parsed, answers.name)
  IN /\ pc = "patch"
     /\ IF assigned.t = "throw"
          THEN /\ Uncaught(assigned.v)
               /\ UNCHANGED <<manifest, files, trace>>
          ELSE /\ manifest' = JSONstringify(assigned)
               /\ files' = [files EXCEPT !["package.json"] = commonPath]
               /\ trace' = Append(trace, "patch")
               /\ pc' = "copyMain"
               /\ UNCHANGED <<output, exitCode>>
     /\ UNCHANGED <<answers, rejections, entries, procCwd, copies, installs, inputs>>

\* JSON.parse(readFileSync(package)), packageJSON.name = answers.name,
\* writeFileSync(package, JSON.stringify(packageJSON, undefined, 2))
PatchManifest ==
  LET parsed == JSONparse(manifest)
      assigned == IF parsed.t = "throw" THEN parsed ELSE AssignName(parsed, answers.name)
  IN /\ pc = "patch"
     /\ IF assigned.t = "throw"
          THEN /\ Uncaught(assigned.v)
               /\ UNCHANGED <<manifest, trace>>
          ELSE /\ manifest' = JSONstringify(assigned)
               /\ trace' = Append(trace, "patch")
               /\ pc' = "copyMain"
               /\ UNCHANGED <<output, exitCode>>
     /\ UNCHANGED <<answers, rejections, entries, files, procCwd, copies, installs, inputs>>

\* await extra.copy(config.contentPath, projectPaths.root)
CopyMain ==
  /\ pc = "copyMain"
  /\ copy(config.contentPath)
  /\ pc' = IF answers.styleLibrary = "Tailwind CSS" THEN "copyStyle" ELSE "chdir"
  /\ UNCHANGED <<answers, rejections, procCwd, installs, output, exitCode, inputs>>

\* if (answers.styleLibrary === 'Tailwind CSS') await extra.copy(...)
CopyStyle ==
  /\ pc = "copyStyle"
  /\ copy(styleConfigs.tailwindcss.contentPath)
  /\ pc' = "chdir"
  /\ UNCHANGED <<answers, rejections, procCwd, installs, output, exitCode, inputs>>

\* An extra.copy whose promise rejects (the source cannot be read, the
\* target cannot be written): nothing catches it.
CopyFails ==
  /\ pc \in {"copyCommon", "copyMain", "copyStyle"}
  /\ Uncaught("copy")
  /\ UNCHANGED <<answers, rejections, entries, files, manifest, procCwd, copies,
                 installs, trace, inputs>>

Chdir_stays ==
  /\ pc = "chdir"
  /\ pc' = "installSave"
  /\ UNCHANGED <<answers, rejections, entries, files, manifest, procCwd, copies,
                 installs, trace, output, exitCode, inputs>>

\* process.chdir(projectPaths.root)
Chdir ==
  /\ pc = "chdir"
  /\ procCwd' = projectRoot
  /\ pc' = "installSave"
  /\ UNCHANGED <<answers, rejections, entries, files, manifest, copies, installs,
                 trace, output, exitCode, inputs>>

install_carriesOn(dependencies, isDev, next) ==
  \E r \in ExecResults :
    /\ installs' = Append(installs, [dependencies |-> dependencies, isDev |-> isDev,
                                     cwd |-> procCwd, status |-> r.status,
                                     stderr |-> r.stderr])
    /\ trace' = Append(trace, "install")
    /\ pc' = next
    /\ output' = IF r.status = 0 THEN output
                 ELSE Append(output, [text |-> "npm install failed", detail |-> r.stderr])
    /\ UNCHANGED <<answers, rejections, entries, files, manifest, procCwd, copies,
                   exitCode, inputs>>

\* install(dependencies, options): execSync of npm install; a non-zero exit
\* makes execSync throw, the catch prints the error and calls process.exit(1).
install(dependencies, isDev, next) ==
  \E r \in ExecResults :
    /\ installs' = Append(installs, [dependencies |-> dependencies, isDev |-> isDev,
                                     cwd |-> procCwd, status |-> r.status,
                                     stderr |-> r.stderr])
    /\ trace' = Append(trace, "install")
    /\ IF r.status = 0
         THEN /\ pc' = next
              /\ UNCHANGED <<output, exitCode>>
         ELSE /\ output' = Append(output, [text |-> "npm install failed", detail |-> r.stderr])
              /\ exitCode' = "1"
              /\ pc' = "exited"
    /\ UNCHANGED <<answers, rejections, entries, files, manifest, procCwd, copies, inputs>>

\* install(config.dependencies.save)
InstallSave ==
  /\ pc = "installSave"
  /\ install(config.dependencies.save, FALSE, "installDev")

\* install(config.dependencies.saveDev, { isDev: true }), then the switch
InstallSaveDev ==
  /\ pc = "installDev"
  /\ install(config.dependencies.saveDev, TRUE,
             IF styleConfig(answers.styleLibrary) # "null" THEN "installStyle" ELSE "return")

\* if (styleConfig) install(styleConfig.dependencies.saveDev, { isDev: true })
InstallStyle ==
  /\ pc = "installStyle"
  /\ install(styleConfigs[styleConfig(answers.styleLibrary)].dependencies.saveDev, TRUE, "return")

\* main() returns; nothing is pending and the process ends with status 0.
Return ==
  /\ pc = "return"
  /\ pc' = "exited"
  /\ exitCode' = "0"
  /\ UNCHANGED <<answers, rejections, entries, files, manifest, procCwd, copies,
                 installs, trace, output, inputs>>

Next ==
  \/ \E value \in Names : NameAccepted(value)
  \/ \E value \in Names : NameRejected(value)
  \/ \E value \in Names : NameValidateThrows(value)
  \/ \E yes \in BOOLEAN : AnswerTypeScript(yes)
  \/ \E choice \in choices : AnswerStyle(choice)
  \/ Setup
  \/ CopyCommon
  \/ PatchManifest
  \/ CopyMain
  \/ CopyStyle
  \/ CopyFails
  \/ Chdir
  \/ InstallSave
  \/ InstallSaveDev
  \/ InstallStyle
  \/ Return

Spec == Init /\ [][Next]_vars

(* ------------------------- notions of the claims ----------------------- *)

Range(q) == {q[i] : i \in 1..Len(q)}

IsPrefix(p, q) == Len(p) <= Len(q) /\ \A i \in 1..Len(p) : p[i] = q[i]

\* The run has ended normally.
Succeeded == pc = "exited" /\ exitCode = "0"

\* All three questions are answered.
Answered == trace # <<>>

\* What the user chose at the TypeScript question.
ChoseTypeScript == answers.useTypeScript = ConfirmAnswer(TRUE)

\* The language configuration of the user's choice.
chosenConfig == IF ChoseTypeScript THEN baseConfigs.typescript ELSE baseConfigs.javascript

\* The content paths of the user's choices: common, language, style if it has one.
chosenContentPaths ==
  <<commonPath, chosenConfig.contentPath>>
    \o (IF answers.styleLibrary = "Tailwind CSS"
          THEN <<styleConfigs.tailwindcss.contentPath>> ELSE <<>>)

\* The packages of the --save-dev invocations so far.
devInstalled == UNION {Range(installs[i].dependencies) : i \in {j \in 1..Len(installs) : installs[j].isDev}}

\* The --save-dev invocations so far, each as its package list.
devInvocations == SelectSeq(installs, LAMBDA r : r.isDev)

\* A package.json object text read as key-value data: its field names, and a
\* field's value (the last one written, should the text repeat a name).
FieldNames(file) == {file.members[i][1] : i \in 1..Len(file.members)}

FieldValue(file, k) ==
  LET last == CHOOSE i \in 1..Len(file.members) :
                /\ file.members[i][1] = k
                /\ \A j \in (i + 1)..Len(file.members) : file.members[j][1] # k
  IN file.members[last][2]

(* ------------------------------- claims -------------------------------- *)

\* C1: a successful run with TypeScript = yes and Tailwind CSS has copied
\* exactly [common, typescript, tailwindcss] in that order, and its dev
\* installs are the TypeScript dev dependencies with the Tailwind ones.
C1_TypeScriptTailwind ==
  (Succeeded /\ ChoseTypeScript /\ answers.styleLibrary = "Tailwind CSS") =>
    /\ copies = <<commonPath, baseConfigs.typescript.contentPath,
                  styleConfigs.tailwindcss.contentPath>>
    /\ devInstalled = Range(baseConfigs.typescript.dependencies.saveDev)
                        \cup Range(styleConfigs.tailwindcss.dependencies.saveDev)

\* C2: with JavaScript and style None the run copies [common, javascript] in
\* that order and nothing else, and its only --save-dev invocation installs
\* exactly vite@4 and @vitejs/plugin-react@4.
C2_JavaScriptNone ==
  (Answered /\ ~ChoseTypeScript /\ answers.styleLibrary = "None") =>
    /\ IsPrefix(copies, <<commonPath, baseConfigs.javascript.contentPath>>)
    /\ Len(devInvocations) <= 1
    /\ \A i \in 1..Len(devInvocations) :
         devInvocations[i].dependencies = <<"vite@4", "@vitejs/plugin-react@4">>
    /\ Succeeded =>
         /\ copies = <<commonPath, baseConfigs.javascript.contentPath>>
         /\ Len(devInvocations) = 1
         /\ devInstalled = {"vite@4", "@vitejs/plugin-react@4"}

C2_Witness ==
  Succeeded /\ ~ChoseTypeScript /\ answers.styleLibrary = "None" /\ Len(installs) = 2

\* The place of a step in the order answers, copy, patch, install.
StepRank(step) ==
  CASE step = "answers" -> 0
    [] step = "copy" -> 1
    [] step = "patch" -> 2
    [] OTHER -> 3

\* C3 as stated: the steps of a run happen in the order collect answers, copy
\* templates, patch manifest, install dependencies: no template copy follows
\* the manifest patch and no patch follows an install.
C3_PatchAfterAllCopies ==
  \A i \in 1..Len(trace) : \A j \in i..Len(trace) : StepRank(trace[i]) <= StepRank(trace[j])

\* C3, amended: the steps of a run happen in the order collect answers, copy
\* the common template, patch the manifest, copy the language template, copy
\* the style template if there is one, install dependencies.  The patch comes
\* after the common copy alone and before every other copy and every install.
C3_PatchAfterCommonCopy ==
  /\ \A i \in 1..Len(trace) :
       /\ i = 1 => trace[i] = "answers"
       /\ i = 2 => trace[i] = "copy" /\ copies[1] = commonPath
       /\ i = 3 => trace[i] = "patch"
       /\ i >= 4 => /\ trace[i] \in {"copy", "install"}
                    /\ trace[i] = "copy" => \A j \in 4..i : trace[j] = "copy"
  /\ installs # <<>> =>
       /\ Len(trace) = 3 + (Len(copies) - 1) + Len(installs)
       /\ Len(copies) = IF answers.styleLibrary = "Tailwind CSS" THEN 3 ELSE 2

C3_Witness ==
  /\ installs # <<>>
  /\ answers.styleLibrary = "Tailwind CSS"
  /\ trace[3] = "patch"
  /\ trace[5] = "copy"

\* C4: patching a manifest that is key-value data sets its name field to the
\* project name and leaves every other field present with its value: no other
\* field is added, dropped or altered.
C4_PatchChangesOnlyName ==
  [][(pc = "patch" /\ manifest.kind = "object") =>
       /\ pc' = "copyMain"
       /\ manifest'.kind = "object"
       /\ FieldNames(manifest') = FieldNames(manifest) \cup {"name"}
       /\ FieldValue(manifest', "name") = answers.name
       /\ \A k \in FieldNames(manifest) \ {"name"} :
            FieldValue(manifest', k) = FieldValue(manifest, k)]_vars

C4_Witness ==
  /\ pc = "copyMain"
  /\ commonFile.kind = "object"
  /\ FieldNames(commonFile) = {"name", "version"}
  /\ FieldValue(manifest, "name") = answers.name
  /\ FieldValue(commonFile, "name") # answers.name
  /\ FieldValue(manifest, "version") = FieldValue(commonFile, "version")

\* C5: a package-manager invocation that exits non-zero is the last one of
\* the run: the error text it wrote is printed, the process ends with status
\* 1, and the step leaves the project directory as it was.
C5_FailedInstallIsFatal ==
  /\ [](\A i \in 1..Len(installs) :
          installs[i].status # 0 =>
            /\ i = Len(installs)
            /\ pc = "exited"
            /\ exitCode = "1"
            /\ output[Len(output)] =
                 [text |-> "npm install failed", detail |-> installs[i].stderr])
  /\ [][(Len(installs') > Len(installs) /\ installs'[Len(installs')].status # 0) =>
          /\ files' = files
          /\ manifest' = manifest
          /\ entries' = entries]_vars
  /\ [][pc = "exited" => UNCHANGED vars]_vars

C5_Witness ==
  /\ Len(installs) = 2
  /\ installs[2].status # 0
  /\ exitCode = "1"
  /\ files["package.json"] = commonPath
  /\ entries[answers.name] = "nonemptydir"

\* C6 as stated: a run in which no install fails invokes the package manager
\* exactly twice, for the runtime set and for the language's dev set together
\* with the style library's dev set, each time from the project root.
C6_TwoInvocations ==
  Succeeded =>
    /\ Len(installs) = 2
    /\ installs[1].dependencies = config.dependencies.save /\ ~installs[1].isDev
    /\ installs[2].isDev
    /\ Range(installs[2].dependencies) =
         Range(config.dependencies.saveDev)
           \cup (IF styleConfig(answers.styleLibrary) = "null" THEN {}
                 ELSE Range(styleConfigs[styleConfig(answers.styleLibrary)].dependencies.saveDev))
    /\ \A i \in 1..Len(installs) : installs[i].cwd = projectRoot

\* C6, amended: every invocation is made from the project root; a run in
\* which no install fails invokes the package manager twice when the style is
\* None and three times otherwise: for the runtime set, for the dev set of
\* the language configuration the run resolved, and then for the style
\* library's dev set by itself.
C6_TwoOrThreeInvocations ==
  /\ \A i \in 1..Len(installs) : installs[i].cwd = resolve(cwd, answers.name)
  /\ Succeeded =>
       /\ Len(installs) = IF answers.styleLibrary = "None" THEN 2 ELSE 3
       /\ installs[1].dependencies = <<"react@18", "react-dom@18">> /\ ~installs[1].isDev
       /\ installs[2].dependencies = config.dependencies.saveDev /\ installs[2].isDev
       /\ answers.styleLibrary = "MUI" =>
            installs[3].dependencies = styleConfigs.mui.dependencies.saveDev /\ installs[3].isDev
       /\ answers.styleLibrary = "Tailwind CSS" =>
            installs[3].dependencies = styleConfigs.tailwindcss.dependencies.saveDev /\ installs[3].isDev
       /\ answers.styleLibrary = "Bootstrap" =>
            installs[3].dependencies = styleConfigs.bootstrap.dependencies.saveDev /\ installs[3].isDev

C6_Witness ==
  /\ Succeeded
  /\ answers.styleLibrary = "Bootstrap"
  /\ Len(installs) = 3
  /\ procCwd = <<answers.name>>

\* C7: the validate hook accepts every non-empty name that refers to nothing
\* or to an empty directory, and the name prompt then takes that answer.
C7_ValidateAccepts ==
  \A value \in Names :
    (value # "" /\ entries[value] \in {"absent", "emptydir"}) =>
      /\ validate(value, entries) = Valid
      /\ pc = "promptName" => ENABLED NameAccepted(value)

C7_Witness ==
  /\ pc = "promptTS"
  /\ answers.name # ""
  /\ entries[answers.name] = "emptydir"

\* C8: the validate hook rejects the empty name and every name of a non-empty
\* directory with its message; a rejection leaves the name prompt open and the
\* process running; while the name prompt is open no directory is created, no
\* file is copied and no install is made; a rejected name is never taken.
C8_RejectionReprompts ==
  /\ [](/\ validate("", entries) = PleaseEnterAName
        /\ \A value \in EntryNames :
             entries[value] = "nonemptydir" => validate(value, entries) = CannotUseName
        /\ pc = "promptName" =>
             /\ copies = <<>>
             /\ installs = <<>>
             /\ \A p \in Paths : files[p] = "-"
             /\ manifest = NoFile)
  /\ [][pc = "promptName" =>
          /\ entries' = entries
          /\ rejections' > rejections =>
               /\ pc' = "promptName"
               /\ exitCode' = "running"
               /\ output'[Len(output')].detail \in {PleaseEnterAName, CannotUseName}
          /\ pc' = "promptTS" =>
               /\ answers'.name # ""
               /\ entries[answers'.name] # "nonemptydir"]_vars

C8_Witness ==
  /\ pc = "promptName"
  /\ rejections = 2
  /\ output[1].detail = PleaseEnterAName
  /\ output[2].detail = CannotUseName

C10_CopyOrder ==
  Answered =>
    /\ IsPrefix(copies, chosenContentPaths)
    /\ pc \in {"chdir", "installSave", "installDev", "installStyle", "return"} =>
         /\ copies = chosenContentPaths
         /\ \A p \in Paths :
              LET layers == {i \in 1..Len(copies) :
                               p \in TemplateFiles(copies[i], commonFile, langHasViteConfig)}
              IN layers # {} =>
                   files[p] = copies[CHOOSE i \in layers : \A j \in layers : j <= i]

====
